---------------------------- MODULE Spec2Model ----------------------------
(***************************************************************************)
(* The trading app (src/src/pages/Dashboard.jsx, component App): market    *)
(* ticks, the paper-trading ledger (buyStock, sellStock, the auto-exit     *)
(* effect, add funds, withdraw) and the candle chart (the build-candles    *)
(* effect, the reset on a change of instrument, pan and follow).           *)
(*                                                                         *)
(* Money is held in paise (1/100 rupee), so a value the code rounds with   *)
(* toFixed(2) is an integer here.  Values the code does not round (the     *)
(* charges, totalDebit, netCredit) are exact rationals w + f/Scale paise   *)
(* with 0 <= f < Scale; the JavaScript doubles are abstracted to them.     *)
(* A React state updater queued by a handler is applied in the same step   *)
(* as the handler: handlers and effects run to completion before the next  *)
(* event is taken.                                                         *)
(***************************************************************************)
EXTENDS Integers, Sequences, FiniteSets, TLC

VARIABLES stocks, selected, tickCount, cash, holdings, orders, lastOp, exitCalls,
          candles, candleRef, panOffset, autoFollow,
          dragging, dragStartX, dragStartPan, ingests, call

vars == <<stocks, selected, tickCount, cash, holdings, orders, lastOp, exitCalls,
          candles, candleRef, panOffset, autoFollow,
          dragging, dragStartX, dragStartPan, ingests, call>>

(* The state of the chart: the candle history, the open candle, the pan    *)
(* and follow state, the drag in progress.  ingests is the list of prices  *)
(* the last step folded into the history.                                  *)
chart == <<candles, candleRef, panOffset, autoFollow,
           dragging, dragStartX, dragStartPan>>

ledger == <<cash, holdings, orders>>

-----------------------------------------------------------------------------
(* Bounds of the model *)

MaxTicks == 1
MaxTrades == 2
MaxCash == 100009531
MaxLog == 124
MaxChartTicks == 5
MaxIngests == 7
MaxHistoryTicks == 1830
PanCandles == 22
MaxPanTicks == 6

(* The instrument universe (mockStocks) and its opening prices, in paise: *)
(* one at 10000.00, which every tick moves, and one at 20.00, which the   *)
(* rounding of simulateNextPrice holds still                              *)
Symbols == {"RELIANCE", "TCS"}
InitPrice == [s \in Symbols |-> IF s = "RELIANCE" THEN 1000000 ELSE 2000]

(* Values Math.random() takes, in thousandths: for the opening drift, the *)
(* drift noise of a tick and the shock of a tick                          *)
InitRand == {500}
CalmShock == {500}
DriftRand == {0}
ShockRand == {0, 999}

(* Values typed into the quantity, stop-loss and target fields and into   *)
(* the add-funds / withdraw prompts                                       *)
Quantities == {0, 1, 100}
ClientXs == {100, 130}
Null == {}
Some(v) == {v}
Val(x) == CHOOSE v \in x : TRUE
NaN == [finite |-> FALSE, v |-> 0]
Num(v) == [finite |-> TRUE, v |-> v]
(* The infinities, v their sign *)
Infinity == [finite |-> FALSE, v |-> 1]
NegInfinity == [finite |-> FALSE, v |-> -1]
(* Text of the stop-loss and target fields: empty, not a number, a price *)
EmptyText == [kind |-> "empty", v |-> 0]
JunkText == [kind |-> "junk", v |-> 0]
NumText(v) == [kind |-> "num", v |-> v]
Levels == {[sl |-> JunkText, target |-> EmptyText],
           [sl |-> NumText(999950), target |-> NumText(1000050)],
           [sl |-> NumText(2000000), target |-> NumText(1000)]}
Amounts == {NaN, Num(0), Num(90009531)}

-----------------------------------------------------------------------------
(* Exact arithmetic on w + f/Scale *)

Scale == 100000000

Rat(w, f) == [w |-> w + (f \div Scale), f |-> f % Scale]
IntRat(n) == [w |-> n, f |-> 0]
AddRat(x, y) == Rat(x.w + y.w, x.f + y.f)
SubRat(x, y) == Rat(x.w - y.w, x.f - y.f)
LessRat(x, y) == x.w < y.w \/ (x.w = y.w /\ x.f < y.f)
MinRatElseZero(x, y) == IF LessRat(x, y) THEN x ELSE IntRat(0)

MinRat(x, y) == IF LessRat(x, y) THEN x ELSE y

(* turnover * k / Scale, the product split so it stays within 32 bits *)
MulRate(t, k) ==
    LET a == t \div 10000
        b == t % 10000
        hi == a * k
    IN  Rat(hi \div 10000, (hi % 10000) * 10000 + b * k)

ToFixed2Truncating(x) == x.w

(* toFixed(2) then Number(): nearest paise, a tie away from zero (a tie    *)
(* needs a turnover that is a multiple of 500000.00, which no trade of the *)
(* model has)                                                              *)
ToFixed2(x) ==
    IF x.w >= 0
    THEN IF 2 * x.f >= Scale THEN x.w + 1 ELSE x.w
    ELSE IF 2 * x.f > Scale THEN x.w + 1 ELSE x.w

IsFinite(n) == n \in Int

ClampCeilingOnly(v, a, b) == IF b < v THEN b ELSE v

(* clamp(n, a, b) == Math.max(a, Math.min(b, n)) *)
Clamp(v, a, b) ==
    LET m == IF b < v THEN b ELSE v
    IN  IF a > m THEN a ELSE m

-----------------------------------------------------------------------------
(* calculateCharges: rates are per Scale of turnover, flat fees in paise *)

BrokerageRate == 30000
BrokerageCap == 2000
SttRate == 25000
ExchangeRate == 3450
SebiRate == 100
StampRate == 3000
GstPercent == 18
DpCharge == 1350

GstOfUnscaled(x) == x

(* 0.18 * x; x is a multiple of 50/Scale here, so the quotient is exact *)
GstOf(x) ==
    LET n == x.w * GstPercent
    IN  Rat(n \div 100, (n % 100) * (Scale \div 100) + (GstPercent * x.f) \div 100)

calculateChargesSttBothSides(side, qty, price) ==
    LET turnover == qty * price
        brokerage == MinRat(MulRate(turnover, BrokerageRate), IntRat(BrokerageCap))
        stt == MulRate(turnover, SttRate)
        exchange == MulRate(turnover, ExchangeRate)
        sebi == MulRate(turnover, SebiRate)
        stamp == IF side = "BUY" THEN MulRate(turnover, StampRate) ELSE IntRat(0)
        gst == GstOf(AddRat(brokerage, exchange))
        dp == IF side = "SELL" THEN IntRat(DpCharge) ELSE IntRat(0)
        total == AddRat(AddRat(AddRat(AddRat(AddRat(AddRat(
                     brokerage, stt), exchange), sebi), stamp), gst), dp)
    IN  [turnover |-> turnover, brokerage |-> brokerage, stt |-> stt,
         exchange |-> exchange, sebi |-> sebi, stamp |-> stamp, gst |-> gst,
         dp |-> dp, total |-> total]

calculateCharges(side, qty, price) ==
    LET turnover == qty * price
        brokerage == MinRat(MulRate(turnover, BrokerageRate), IntRat(BrokerageCap))
        stt == IF side = "SELL" THEN MulRate(turnover, SttRate) ELSE IntRat(0)
        exchange == MulRate(turnover, ExchangeRate)
        sebi == MulRate(turnover, SebiRate)
        stamp == IF side = "BUY" THEN MulRate(turnover, StampRate) ELSE IntRat(0)
        gst == GstOf(AddRat(brokerage, exchange))
        dp == IF side = "SELL" THEN IntRat(DpCharge) ELSE IntRat(0)
        total == AddRat(AddRat(AddRat(AddRat(AddRat(AddRat(
                     brokerage, stt), exchange), sebi), stamp), gst), dp)
    IN  [turnover |-> turnover, brokerage |-> brokerage, stt |-> stt,
         exchange |-> exchange, sebi |-> sebi, stamp |-> stamp, gst |-> gst,
         dp |-> dp, total |-> total]

-----------------------------------------------------------------------------
(* Ledger helpers *)

OrderCap == 60

Head60DropNewest(s) == IF Len(s) > OrderCap THEN SubSeq(s, 2, OrderCap + 1) ELSE s

(* .slice(0, 60) *)
Head60(s) == IF Len(s) > OrderCap THEN SubSeq(s, 1, OrderCap) ELSE s

pushOrder(prev, order) == Head60(<<order>> \o prev)

(* prev.find((h) => h.symbol === symbol): index of the first match, 0 if none *)
FindIdx(hs, symbol) ==
    IF \E i \in 1..Len(hs) : hs[i].symbol = symbol
    THEN CHOOSE i \in 1..Len(hs) :
             /\ hs[i].symbol = symbol
             /\ \A j \in 1..(i - 1) : hs[j].symbol # symbol
    ELSE 0

Held(hs, symbol) == FindIdx(hs, symbol) # 0

HeldQty(hs, symbol) ==
    IF Held(hs, symbol) THEN hs[FindIdx(hs, symbol)].qty ELSE 0

(* prev.filter((x) => x.symbol !== symbol) *)
RECURSIVE FilterOut(_, _)
FilterOut(hs, symbol) ==
    IF hs = <<>> THEN <<>>
    ELSE IF Head(hs).symbol = symbol
         THEN FilterOut(Tail(hs), symbol)
         ELSE <<Head(hs)>> \o FilterOut(Tail(hs), symbol)

(* Number(text) of a field's text *)
ToNumber(text) == IF text.kind = "num" THEN Num(text.v) ELSE NaN

(* slPrice === "" ? null : Number(slPrice), kept only when finite *)
ParseLevel(text) ==
    LET parsed == IF text = EmptyText THEN Null ELSE Some(ToNumber(text))
    IN  IF parsed # Null /\ Val(parsed).finite THEN Some(Val(parsed).v) ELSE Null

CoalesceLastWins(existing, supplied) == IF supplied # Null THEN supplied ELSE existing

(* existing ?? supplied *)
Coalesce(existing, supplied) == IF existing # Null THEN existing ELSE supplied

(* Number((n / d).toFixed(2)) for n >= 0, d > 0.  When n/d lies exactly    *)
(* halfway between two paise the double that holds it lies on either side, *)
(* and toFixed rounds to that side: tieUp says which.                      *)
RoundDiv(n, d, tieUp) ==
    IF 2 * (n % d) = d
    THEN (n \div d) + (IF tieUp THEN 1 ELSE 0)
    ELSE (2 * n + d) \div (2 * d)

(* return alert(...): the handler stops before any state setter is called *)
RejectAfterLogging(st, reason) ==
    [st EXCEPT !.result = reason,
               !.orders = <<[id |-> st.now, symbol |-> "", side |-> "NONE", qty |-> 0,
                             price |-> 0, status |-> "REJECTED", charges |-> 0]>>
                          \o st.orders]

Reject(st, reason) == [st EXCEPT !.result = reason]

-----------------------------------------------------------------------------
(* buyStock(symbol, quantity, slPrice, targetPrice), called from a render  *)
(* whose stocks (live) and ledger (st) are the current ones.  The result   *)
(* is the ledger after the queued updaters ran, and the outcome shown to   *)
(* the user.                                                               *)

NewAvgLatestPrice(oldQty, oldAvg, quantity, price, tieUp) == price

(* Number(((existing.qty * existing.avgBuy + quantity * price) / newQty).toFixed(2)) *)
NewAvg(oldQty, oldAvg, quantity, price, tieUp) ==
    RoundDiv(oldQty * oldAvg + quantity * price, oldQty + quantity, tieUp)

BuyHoldingsAlwaysAppend(prev, symbol, quantity, price, slPrice, targetPrice, tieUp) ==
    Append(prev, [symbol |-> symbol, qty |-> quantity,
                  avgBuy |-> ToFixed2(IntRat(price)),
                  sl |-> ParseLevel(slPrice), target |-> ParseLevel(targetPrice)])

(* the setHoldings updater of buyStock *)
BuyHoldings(prev, symbol, quantity, price, slPrice, targetPrice, tieUp) ==
    LET i == FindIdx(prev, symbol)
        parsedSL == ParseLevel(slPrice)
        parsedTarget == ParseLevel(targetPrice)
    IN  IF i = 0
        THEN Append(prev, [symbol |-> symbol, qty |-> quantity,
                           avgBuy |-> ToFixed2(IntRat(price)),
                           sl |-> parsedSL, target |-> parsedTarget])
        ELSE LET existing == prev[i]
                 newQty == existing.qty + quantity
                 newAvg == NewAvg(existing.qty, existing.avgBuy, quantity, price, tieUp)
             IN  [j \in 1..Len(prev) |->
                    IF prev[j].symbol = symbol
                    THEN [prev[j] EXCEPT !.qty = newQty, !.avgBuy = newAvg,
                                         !.sl = Coalesce(existing.sl, parsedSL),
                                         !.target = Coalesce(existing.target, parsedTarget)]
                    ELSE prev[j]]

BuyInsufficientAtEqual(totalDebit, c) == ~LessRat(totalDebit, IntRat(c))

(* totalDebit > cash *)
BuyInsufficient(totalDebit, c) == LessRat(IntRat(c), totalDebit)

BuyCashTruncated(c, totalDebit) == c - totalDebit.w

(* Number((c - totalDebit).toFixed(2)) *)
BuyCash(c, totalDebit) == ToFixed2(SubRat(IntRat(c), totalDebit))

buyStock(live, st, symbol, quantity, slPrice, targetPrice, tieUp) ==
    IF symbol \notin DOMAIN live
    THEN Reject(st, "NoSuchStock")
    ELSE IF ~IsFinite(quantity) \/ quantity <= 0
    THEN Reject(st, "InvalidQuantity")
    ELSE LET price == live[symbol].price
             charges == calculateCharges("BUY", quantity, price)
             totalDebit == AddRat(IntRat(quantity * price), charges.total)
         IN  IF BuyInsufficient(totalDebit, st.cash)
             THEN Reject(st, "InsufficientFunds")
             ELSE [cash |-> BuyCash(st.cash, totalDebit),
                   holdings |-> BuyHoldings(st.holdings, symbol, quantity, price,
                                            slPrice, targetPrice, tieUp),
                   orders |-> pushOrder(st.orders,
                                 [id |-> st.now, symbol |-> symbol,
                                  side |-> "BUY", qty |-> quantity,
                                  price |-> ToFixed2(IntRat(price)), status |-> "FILLED",
                                  charges |-> ToFixed2(charges.total)]),
                   result |-> "ok", now |-> st.now]

-----------------------------------------------------------------------------
(* sellStock(symbol, quantity).  live and snapshot are the stocks and the  *)
(* holdings of the render the call was made from; st is the ledger the     *)
(* queued updaters are applied to.                                         *)

SellHoldingsKeepZero(prev, symbol, quantity) ==
    LET i == FindIdx(prev, symbol)
    IN  IF i = 0 THEN prev
        ELSE IF prev[i].qty - quantity < 0
        THEN FilterOut(prev, symbol)
        ELSE [j \in 1..Len(prev) |->
                IF prev[j].symbol = symbol
                THEN [prev[j] EXCEPT !.qty = prev[i].qty - quantity]
                ELSE prev[j]]

SellExcessAtEqual(quantity, heldQty) == quantity >= heldQty

(* quantity > existing.qty *)
SellExcess(quantity, heldQty) == quantity > heldQty

NetCreditGross(grossCredit, total) == grossCredit

(* netCredit = grossCredit - charges.total *)
NetCredit(grossCredit, total) == SubRat(grossCredit, total)

SellHoldings(prev, symbol, quantity) ==
    LET i == FindIdx(prev, symbol)
    IN  IF i = 0 THEN prev
        ELSE IF prev[i].qty - quantity <= 0
        THEN FilterOut(prev, symbol)
        ELSE [j \in 1..Len(prev) |->
                IF prev[j].symbol = symbol
                THEN [prev[j] EXCEPT !.qty = prev[i].qty - quantity]
                ELSE prev[j]]

sellStock(live, snapshot, st, symbol, quantity) ==
    IF symbol \notin DOMAIN live
    THEN Reject(st, "NoSuchStock")
    ELSE IF ~IsFinite(quantity) \/ quantity <= 0
    THEN Reject(st, "InvalidQuantity")
    ELSE IF ~Held(snapshot, symbol)
    THEN Reject(st, "NoSuchHolding")
    ELSE IF SellExcess(quantity, HeldQty(snapshot, symbol))
    THEN Reject(st, "InsufficientQuantity")
    ELSE LET price == live[symbol].price
             charges == calculateCharges("SELL", quantity, price)
             grossCredit == IntRat(quantity * price)
             netCredit == NetCredit(grossCredit, charges.total)
         IN  [cash |-> ToFixed2(AddRat(IntRat(st.cash), netCredit)),
              holdings |-> SellHoldings(st.holdings, symbol, quantity),
              orders |-> pushOrder(st.orders,
                            [id |-> st.now, symbol |-> symbol,
                             side |-> "SELL", qty |-> quantity,
                             price |-> ToFixed2(IntRat(price)), status |-> "FILLED",
                             charges |-> ToFixed2(charges.total)]),
              result |-> "ok", now |-> st.now]

-----------------------------------------------------------------------------
(* Market tick: one setInterval callback (drift, then simulateNextPrice)   *)

DriftBand == 25000

(* (Math.random() - 0.5) * span, span in units of 1/Scale per thousandth *)
Noise(r, span) == (r - 500) * span

simulateNextPriceUnguarded(price, drift, r) ==
    LET shock == Noise(r, 15)
        percentMove == drift + shock
        next == IF percentMove >= 0
                THEN AddRat(IntRat(price.v), MulRate(price.v, percentMove))
                ELSE SubRat(IntRat(price.v), MulRate(price.v, -percentMove))
    IN  ToFixed2(next)

(* price is a JS number, Num(paise) or a non-finite value *)
simulateNextPrice(price, drift, r) ==
    IF ~price.finite THEN 0
    ELSE LET shock == Noise(r, 15)
             percentMove == drift + shock
             next == IF percentMove >= 0
                     THEN AddRat(IntRat(price.v), MulRate(price.v, percentMove))
                     ELSE SubRat(IntRat(price.v), MulRate(price.v, -percentMove))
         IN  ToFixed2(next)

TickStock(s, rd, rs) ==
    LET nextDrift == Clamp(s.drift + Noise(rd, 2), -DriftBand, DriftBand)
    IN  [price |-> simulateNextPrice(Num(s.price), nextDrift, rs), drift |-> nextDrift]

-----------------------------------------------------------------------------
(* Auto exit SL/Target effect, run after the render of a tick: the calls   *)
(* it makes, in order, from the holdings hs of that render                 *)

(* h.target != null && ltp >= h.target && h.qty > 0 *)
TargetReached(h, ltp) == h.target # Null /\ ltp >= Val(h.target) /\ h.qty > 0

StopReachedAbove(h, ltp) == h.sl # Null /\ ltp >= Val(h.sl) /\ h.qty > 0

(* h.sl != null && ltp <= h.sl && h.qty > 0 *)
StopReached(h, ltp) == h.sl # Null /\ ltp <= Val(h.sl) /\ h.qty > 0

RECURSIVE ExitCalls(_, _)
ExitCalls(hs, live) ==
    IF hs = <<>> THEN <<>>
    ELSE LET h == Head(hs)
             ltp == live[h.symbol].price
             onTarget == IF TargetReached(h, ltp)
                         THEN <<[symbol |-> h.symbol, qty |-> h.qty]>> ELSE <<>>
             onStop == IF StopReached(h, ltp)
                       THEN <<[symbol |-> h.symbol, qty |-> h.qty]>> ELSE <<>>
         IN  IF h.symbol \notin DOMAIN live
             THEN ExitCalls(Tail(hs), live)
             ELSE onTarget \o onStop \o ExitCalls(Tail(hs), live)

(* The calls are made one after the other in one run of the effect;       *)
(* steps[k] is the number of milliseconds Date.now() has moved on between  *)
(* call k and call k+1                                                     *)
RECURSIVE ApplyExits(_, _, _, _, _)
ApplyExits(calls, live, snapshot, st, steps) ==
    IF calls = <<>> THEN st
    ELSE LET r == sellStock(live, snapshot, st, Head(calls).symbol, Head(calls).qty)
         IN  IF Tail(calls) = <<>> THEN r
             ELSE ApplyExits(Tail(calls), live, snapshot,
                             [r EXCEPT !.now = @ + Head(steps)], Tail(steps))

RECURSIVE ExitResults(_, _, _, _)
ExitResults(calls, live, snapshot, st) ==
    IF calls = <<>> THEN <<>>
    ELSE LET r == sellStock(live, snapshot, st, Head(calls).symbol, Head(calls).qty)
         IN  <<[symbol |-> Head(calls).symbol, qty |-> Head(calls).qty,
                result |-> r.result]>>
             \o ExitResults(Tail(calls), live, snapshot, r)

-----------------------------------------------------------------------------
(* The "build candles" effect: the setCandles updater, applied to the      *)
(* history prev and the open candle ref (candleRef.current).  A candle's   *)
(* id is its instant of creation, counted here in candles created since    *)
(* the history was last emptied; its time label is left out.               *)

CANDLE_TICKS == 6
HistoryCap == 300

Max(a, b) == IF a >= b THEN a ELSE b
Min(a, b) == IF a <= b THEN a ELSE b

NewCandleNoTick(id, price, ticks) ==
    [id |-> id, open |-> price, high |-> price, low |-> price, close |-> price,
     ticks |-> 0]

(* { id, time, open: price, high: price, low: price, close: price, ticks } *)
NewCandle(id, price, ticks) ==
    [id |-> id, open |-> price, high |-> price, low |-> price, close |-> price,
     ticks |-> ticks]

FoldTickKeepLow(current, price) ==
    [current EXCEPT !.high = Max(current.high, price),
                    !.close = price,
                    !.ticks = current.ticks + 1]

FoldTickCountTwice(current, price) ==
    [current EXCEPT !.high = Max(current.high, price),
                    !.low = Min(current.low, price),
                    !.close = price,
                    !.ticks = current.ticks + 2]

(* { ...current, high: max, low: min, close: price, ticks: ticks + 1 } *)
FoldTick(current, price) ==
    [current EXCEPT !.high = Max(current.high, price),
                    !.low = Min(current.low, price),
                    !.close = price,
                    !.ticks = current.ticks + 1]

ReplaceFirst(list, c) == IF list = <<>> THEN list ELSE [list EXCEPT ![1] = c]

(* list[list.length - 1] = updated; on an empty list the assignment adds   *)
(* no element                                                              *)
ReplaceLast(list, c) == IF list = <<>> THEN list ELSE [list EXCEPT ![Len(list)] = c]

Last300KeepOldest(s) == IF Len(s) > HistoryCap THEN SubSeq(s, 1, HistoryCap) ELSE s

(* list.slice(-300) *)
Last300(s) == IF Len(s) > HistoryCap THEN SubSeq(s, Len(s) - HistoryCap + 1, Len(s)) ELSE s

SealDueLate(ticks) == ticks > CANDLE_TICKS

(* updated.ticks >= CANDLE_TICKS *)
SealDue(ticks) == ticks >= CANDLE_TICKS

BuildCandlesOpenAtOpen(prev, ref, price) ==
    IF ref = Null
    THEN LET c == NewCandle(Len(prev) + 1, price, 1)
         IN  [candles |-> Append(prev, c), ref |-> Some(c), sealed |-> FALSE]
    ELSE LET updated == FoldTick(Val(ref), price)
             list == ReplaceLast(prev, updated)
         IN  IF SealDue(updated.ticks)
             THEN LET next == NewCandle(updated.id + 1, updated.open, 0)
                  IN  [candles |-> Last300(Append(list, next)), ref |-> Some(next),
                       sealed |-> TRUE]
             ELSE [candles |-> Last300(list), ref |-> Some(updated), sealed |-> FALSE]

(* The new history, the new open candle, and whether a candle was sealed *)
BuildCandles(prev, ref, price) ==
    IF ref = Null
    THEN LET c == NewCandle(Len(prev) + 1, price, 1)
         IN  [candles |-> Append(prev, c), ref |-> Some(c), sealed |-> FALSE]
    ELSE LET updated == FoldTick(Val(ref), price)
             list == ReplaceLast(prev, updated)
         IN  IF SealDue(updated.ticks)
             THEN LET next == NewCandle(updated.id + 1, updated.close, 0)
                  IN  [candles |-> Last300(Append(list, next)), ref |-> Some(next),
                       sealed |-> TRUE]
             ELSE [candles |-> Last300(list), ref |-> Some(updated), sealed |-> FALSE]

ResetKeepsOpen(prev, ref) == [candles |-> <<>>, ref |-> ref, sealed |-> FALSE]

(* The "reset candles on symbol change" effect: setCandles([]) and         *)
(* candleRef.current = null                                                *)
Reset(prev, ref) == [candles |-> <<>>, ref |-> Null, sealed |-> FALSE]

(* Math.round(n / d) for d > 0: the nearest integer, a tie upwards *)
RoundHalfUp(n, d) == (2 * n + d) \div (2 * d)

(* The drag of handleChartMouseMove: 12 pixels to a candle, at least 20    *)
(* candles kept in view                                                    *)
PixelsPerCandle == 12
MinInView == 20

maxPanOffsetWholeHistory(list) == Len(list)

maxPanOffset(list) == Max(0, Len(list) - MinInView)

(* The window the chart draws: visibleCount candles, clamped to 20..120,   *)
(* ending panOffset candles before the newest                              *)
VisibleCount == 60
MinVisible == 20
MaxVisible == 120

safeVisible(visibleCount) == Clamp(visibleCount, MinVisible, MaxVisible)
endIndex(list, pan) == Max(0, Len(list) - pan)
startIndex(list, pan, visibleCount) ==
    Max(0, endIndex(list, pan) - safeVisible(visibleCount))
(* candles.slice(startIndex, endIndex) *)
visible(list, pan, visibleCount) ==
    SubSeq(list, startIndex(list, pan, visibleCount) + 1, endIndex(list, pan))

-----------------------------------------------------------------------------
(* State machine *)

(* Date.now(), in milliseconds counted from the start of the session, of   *)
(* a handler that runs with the order log os: a handler runs at a later    *)
(* instant than the one that logged the newest order                       *)
Later(os) == IF os = <<>> THEN 1 ELSE Head(os).id + 1

(* Milliseconds that pass between two sellStock calls of one run of the    *)
(* auto-exit effect: none when the run stays within one millisecond, as    *)
(* a loop over a few holdings does; none or one when the clock may step    *)
SameInstant == {0}
ClockSteps == {0, 1}

(* The ledger a handler is called with, and the instant of the call *)
Ledger == [cash |-> cash, holdings |-> holdings, orders |-> orders, result |-> "none",
           now |-> Later(orders)]

(* The last handler that ran, what it was given and how it ended; sl and   *)
(* target are the levels an accepted buy was given, as parsed              *)
Op(op, symbol, qty, sl, target, amount, result) ==
    [op |-> op, symbol |-> symbol, qty |-> qty, sl |-> sl, target |-> target,
     amount |-> amount, result |-> result]

(* The chart after the effects of the first render: the reset effect,     *)
(* then the build effect, which opens the first candle at the price of    *)
(* the selected instrument                                                 *)
Mounted ==
    /\ \E r \in {BuildCandles(<<>>, Null, InitPrice["RELIANCE"])} :
           /\ candles = r.candles
           /\ candleRef = r.ref
    /\ panOffset = 0
    /\ autoFollow = TRUE
    /\ dragging = FALSE
    /\ dragStartX = 0
    /\ dragStartPan = 0
    /\ ingests = <<InitPrice["RELIANCE"]>>

(* No function has been applied on its own yet *)
Idle == [fn |-> "none"]

Init ==
    /\ stocks \in [Symbols -> [price : {InitPrice[s] : s \in Symbols},
                                drift : {Noise(r, 20) : r \in InitRand}]]
    /\ \A s \in Symbols : stocks[s].price = InitPrice[s]
    /\ selected = "RELIANCE"
    /\ tickCount = 0
    /\ cash = 10000000
    /\ holdings = <<>>
    /\ orders = <<>>
    /\ lastOp = Op("init", "", 0, Null, Null, NaN, "none")
    /\ exitCalls = <<>>
    /\ call = Idle
    /\ Mounted

Commit(st) ==
    /\ cash' = st.cash
    /\ holdings' = st.holdings
    /\ orders' = st.orders

(* The interval callback and the effects of the render it causes; gaps    *)
(* are the steps the clock can take between two calls of the auto-exit     *)
(* effect                                                                  *)
TickWith(gaps) ==
    /\ tickCount < MaxTicks
    /\ \E rd \in [Symbols -> DriftRand], rs \in [Symbols -> ShockRand] :
          stocks' = [s \in Symbols |-> TickStock(stocks[s], rd[s], rs[s])]
    /\ tickCount' = tickCount + 1
    /\ \E calls \in {IF Len(holdings) = 0 THEN <<>> ELSE ExitCalls(holdings, stocks')} :
           /\ \E steps \in [1..(Len(calls) - 1) -> gaps] :
                 \E st \in {ApplyExits(calls, stocks', holdings, Ledger, steps)} : Commit(st)
           /\ UNCHANGED call
           /\ exitCalls' = ExitResults(calls, stocks', holdings, Ledger)
    /\ lastOp' = Op("tick", "", 0, Null, Null, NaN, "none")
    /\ UNCHANGED selected
    /\ ingests' = <<>>
    /\ UNCHANGED chart

Tick == TickWith(SameInstant)

Buy ==
    /\ Len(orders) < MaxTrades
    /\ \E q \in Quantities, lv \in Levels,
          tieUp \in IF Held(holdings, selected) THEN BOOLEAN ELSE {TRUE} :
          \E st \in {buyStock(stocks, Ledger, selected, q, lv.sl, lv.target, tieUp)} :
              /\ Commit(st)
              /\ lastOp' = IF st.result = "ok"
                           THEN Op("buy", selected, q, ParseLevel(lv.sl),
                                   ParseLevel(lv.target), NaN, "ok")
                           ELSE Op("buy", selected, q, Null, Null, NaN, st.result)
    /\ UNCHANGED call
    /\ exitCalls' = <<>>
    /\ UNCHANGED <<stocks, selected, tickCount>>
    /\ ingests' = <<>>
    /\ UNCHANGED chart

SellCommand(symbol, q) ==
    /\ Len(orders) < MaxTrades
    /\ \E st \in {sellStock(stocks, holdings, Ledger, symbol, q)} :
           /\ Commit(st)
           /\ lastOp' = Op("sell", symbol, q, Null, Null, NaN, st.result)
    /\ UNCHANGED call
    /\ exitCalls' = <<>>
    /\ UNCHANGED <<stocks, selected, tickCount>>
    /\ ingests' = <<>>
    /\ UNCHANGED chart

(* SELL button of the trade panel *)
Sell == \E q \in Quantities : SellCommand(selected, q)

(* "Sell 1" and "Sell all" buttons of a holdings row *)
SellOne == \E i \in 1..Len(holdings) : SellCommand(holdings[i].symbol, 1)

SellAll == \E i \in 1..Len(holdings) : SellCommand(holdings[i].symbol, holdings[i].qty)

InvalidAmountNegativeOnly(amt) == ~amt.finite \/ amt.v < 0

(* !Number.isFinite(amt) || amt <= 0 *)
InvalidAmount(amt) == ~amt.finite \/ amt.v <= 0

(* Number((c + amt).toFixed(2)) *)
DepositCash(c, amt) == ToFixed2(IntRat(c + amt))

(* amt > cash *)
WithdrawExcess(amt, c) == amt > c

(* Number((c - amt).toFixed(2)) *)
WithdrawCash(c, amt) == ToFixed2(IntRat(c - amt))

handleAddFunds ==
    /\ \E amt \in Amounts :
          /\ amt.finite /\ amt.v > 0 => cash + amt.v <= MaxCash
          /\ IF InvalidAmount(amt)
             THEN /\ cash' = cash
                  /\ lastOp' = Op("deposit", "", 0, Null, Null, amt, "InvalidAmount")
             ELSE /\ cash' = DepositCash(cash, amt.v)
                  /\ lastOp' = Op("deposit", "", 0, Null, Null, amt, "ok")
    /\ UNCHANGED call
    /\ exitCalls' = <<>>
    /\ UNCHANGED <<stocks, selected, tickCount, holdings, orders>>
    /\ ingests' = <<>>
    /\ UNCHANGED chart

(* handleWithdraw, the prompt answered with one of amounts *)
Withdraw(amounts) ==
    /\ \E amt \in amounts :
          IF InvalidAmount(amt)
          THEN /\ cash' = cash
               /\ lastOp' = Op("withdraw", "", 0, Null, Null, amt, "InvalidAmount")
          ELSE IF WithdrawExcess(amt.v, cash)
          THEN /\ cash' = cash
               /\ lastOp' = Op("withdraw", "", 0, Null, Null, amt, "InsufficientFunds")
          ELSE /\ cash' = WithdrawCash(cash, amt.v)
               /\ lastOp' = Op("withdraw", "", 0, Null, Null, amt, "ok")
    /\ UNCHANGED call
    /\ exitCalls' = <<>>
    /\ UNCHANGED <<stocks, selected, tickCount, holdings, orders>>
    /\ ingests' = <<>>
    /\ UNCHANGED chart

handleWithdraw == Withdraw(Amounts)

(* a click on the row already selected sets the same state: no render *)
Select ==
    /\ \E s \in Symbols \ {selected} : selected' = s
    /\ lastOp' = Op("select", selected', 0, Null, Null, NaN, "none")
    /\ UNCHANGED call
    /\ exitCalls' = <<>>
    /\ UNCHANGED <<stocks, tickCount, cash, holdings, orders>>
    /\ ingests' = <<>>
    /\ UNCHANGED chart

Next ==
    \/ Tick
    \/ Buy
    \/ Sell
    \/ SellOne
    \/ SellAll
    \/ handleAddFunds
    \/ handleWithdraw
    \/ Select

Spec == Init /\ [][Next]_vars

(* The same session with a clock that may step inside a run of the         *)
(* auto-exit effect                                                        *)
ClockTick == TickWith(ClockSteps)

ClockNext ==
    \/ ClockTick
    \/ Buy
    \/ Sell
    \/ SellOne
    \/ SellAll
    \/ handleAddFunds
    \/ handleWithdraw
    \/ Select

ClockSpec == Init /\ [][ClockNext]_vars

(* A session of round trips, long enough for the order log to fill and    *)
(* turn over: one share of the selected symbol is bought when nothing is   *)
(* held and sold when it is, until MaxLog orders were placed               *)
LogBuy ==
    /\ Later(orders) <= MaxLog
    /\ holdings = <<>>
    /\ \E st \in {buyStock(stocks, Ledger, selected, 1, EmptyText, EmptyText, TRUE)} :
           /\ Commit(st)
           /\ lastOp' = Op("buy", selected, 1, Null, Null, NaN, st.result)
    /\ UNCHANGED call
    /\ exitCalls' = <<>>
    /\ UNCHANGED <<stocks, selected, tickCount>>
    /\ ingests' = <<>>
    /\ UNCHANGED chart

LogSell ==
    /\ Later(orders) <= MaxLog
    /\ holdings # <<>>
    /\ \E st \in {sellStock(stocks, holdings, Ledger, holdings[1].symbol, holdings[1].qty)} :
           /\ Commit(st)
           /\ lastOp' = Op("sell", holdings[1].symbol, holdings[1].qty, Null, Null, NaN,
                           st.result)
    /\ UNCHANGED call
    /\ exitCalls' = <<>>
    /\ UNCHANGED <<stocks, selected, tickCount>>
    /\ ingests' = <<>>
    /\ UNCHANGED chart

LogNext == LogBuy \/ LogSell

LogSpec == Init /\ [][LogNext]_vars

-----------------------------------------------------------------------------
(* The chart.  Its state does not enter the ledger and the ledger does not *)
(* enter it, so Spec and LogSpec follow the ledger with the chart as it    *)
(* was mounted, and ChartSpec and HistorySpec follow the chart with        *)
(* nothing held.                                                           *)

(* One run of the build effect in a render whose autoFollow is follow:     *)
(* if (autoFollow) setPanOffset(0) goes with the seal                      *)
Built(prev, ref, price, follow, pan) ==
    LET r == BuildCandles(prev, ref, price)
    IN  [candles |-> r.candles, ref |-> r.ref,
         pan |-> IF r.sealed /\ follow THEN 0 ELSE pan]

(* Prices folded into a history: the sum of its candles' ticks *)
RECURSIVE Ingested(_)
Ingested(list) == IF list = <<>> THEN 0 ELSE Head(list).ticks + Ingested(Tail(list))

(* The interval callback and the effects of the render it causes: the     *)
(* auto-exit effect returns at holdings.length === 0, the build effect     *)
(* runs because tickCount changed                                          *)
MarketTick(shocks) ==
    /\ Len(holdings) = 0
    /\ \E rd \in [Symbols -> DriftRand], rs \in [Symbols -> shocks] :
          stocks' = [s \in Symbols |-> TickStock(stocks[s], rd[s], rs[s])]
    /\ tickCount' = tickCount + 1
    /\ \E r \in {Built(candles, candleRef, stocks'[selected].price, autoFollow, panOffset)} :
          /\ candles' = r.candles
          /\ candleRef' = r.ref
          /\ panOffset' = r.pan
    /\ ingests' = <<stocks'[selected].price>>
    /\ lastOp' = Op("tick", "", 0, Null, Null, NaN, "none")
    /\ UNCHANGED call
    /\ exitCalls' = <<>>
    /\ UNCHANGED <<selected, cash, holdings, orders>>
    /\ UNCHANGED <<autoFollow, dragging, dragStartX, dragStartPan>>

ChartTick == tickCount < MaxChartTicks /\ MarketTick(ShockRand)

(* setAutoFollow(false) changes a dependency of the build effect when      *)
(* autoFollow was true: the effect runs again with the same price          *)
handleChartMouseDown ==
    /\ \E x \in ClientXs : dragStartX' = x
    /\ dragging' = TRUE
    /\ dragStartPan' = panOffset
    /\ autoFollow' = FALSE
    /\ IF autoFollow
       THEN /\ Ingested(candles) < MaxIngests
            /\ \E r \in {Built(candles, candleRef, stocks[selected].price, FALSE, panOffset)} :
                  /\ candles' = r.candles
                  /\ candleRef' = r.ref
                  /\ panOffset' = r.pan
            /\ ingests' = <<stocks[selected].price>>
       ELSE /\ UNCHANGED <<candles, candleRef, panOffset>>
            /\ ingests' = <<>>
    /\ lastOp' = Op("mousedown", "", 0, Null, Null, NaN, "none")
    /\ UNCHANGED call
    /\ exitCalls' = <<>>
    /\ UNCHANGED <<stocks, selected, tickCount, cash, holdings, orders>>

handleChartMouseMove ==
    /\ \E x \in ClientXs :
          IF ~dragging
          THEN UNCHANGED panOffset
          ELSE LET dx == x - dragStartX
                   candlesMove == RoundHalfUp(dx, PixelsPerCandle)
               IN  panOffset' = Clamp(dragStartPan - candlesMove, 0, maxPanOffset(candles))
    /\ ingests' = <<>>
    /\ lastOp' = Op("mousemove", "", 0, Null, Null, NaN, "none")
    /\ UNCHANGED call
    /\ exitCalls' = <<>>
    /\ UNCHANGED <<stocks, selected, tickCount, cash, holdings, orders>>
    /\ UNCHANGED <<candles, candleRef, autoFollow, dragging, dragStartX, dragStartPan>>

handleChartMouseUp ==
    /\ dragging' = FALSE
    /\ ingests' = <<>>
    /\ lastOp' = Op("mouseup", "", 0, Null, Null, NaN, "none")
    /\ UNCHANGED call
    /\ exitCalls' = <<>>
    /\ UNCHANGED <<stocks, selected, tickCount, cash, holdings, orders>>
    /\ UNCHANGED <<candles, candleRef, panOffset, autoFollow, dragStartX, dragStartPan>>

(* setPanOffset(0); setAutoFollow(true): the build effect runs again when  *)
(* autoFollow was false                                                    *)
handleChartDoubleClick ==
    /\ autoFollow' = TRUE
    /\ panOffset' = 0
    /\ IF ~autoFollow
       THEN /\ Ingested(candles) < MaxIngests
            /\ \E r \in {Built(candles, candleRef, stocks[selected].price, TRUE, 0)} :
                  /\ candles' = r.candles
                  /\ candleRef' = r.ref
            /\ ingests' = <<stocks[selected].price>>
       ELSE /\ UNCHANGED <<candles, candleRef>>
            /\ ingests' = <<>>
    /\ lastOp' = Op("dblclick", "", 0, Null, Null, NaN, "none")
    /\ UNCHANGED call
    /\ exitCalls' = <<>>
    /\ UNCHANGED <<stocks, selected, tickCount, cash, holdings, orders>>
    /\ UNCHANGED <<dragging, dragStartX, dragStartPan>>

(* A click on another row of the watchlist.  The reset effect empties the  *)
(* history and the open candle and sets autoFollow; the build effect of    *)
(* the same render runs if the price shown changed, and runs once more in  *)
(* the next render if autoFollow was false.                                *)
ChartSelect ==
    /\ \E s \in Symbols \ {selected} : selected' = s
    /\ LET price == stocks[selected'].price
           reset == Reset(candles, candleRef)
           first == IF price # stocks[selected].price
                    THEN BuildCandles(reset.candles, reset.ref, price)
                    ELSE reset
           second == IF ~autoFollow
                     THEN BuildCandles(first.candles, first.ref, price)
                     ELSE first
       IN  /\ candles' = second.candles
           /\ candleRef' = second.ref
           /\ ingests' = (IF price # stocks[selected].price THEN <<price>> ELSE <<>>)
                          \o (IF ~autoFollow THEN <<price>> ELSE <<>>)
    /\ panOffset' = 0
    /\ autoFollow' = TRUE
    /\ lastOp' = Op("select", selected', 0, Null, Null, NaN, "none")
    /\ UNCHANGED call
    /\ exitCalls' = <<>>
    /\ UNCHANGED <<stocks, tickCount, cash, holdings, orders>>
    /\ UNCHANGED <<dragging, dragStartX, dragStartPan>>

ChartNext ==
    \/ ChartTick
    \/ handleChartMouseDown
    \/ handleChartMouseMove
    \/ handleChartMouseUp
    \/ handleChartDoubleClick
    \/ ChartSelect

ChartSpec == Init /\ [][ChartNext]_vars

(* A session that trades and switches the viewed instrument, at the        *)
(* opening prices: buys, deposits, mouse downs on the chart and clicks on  *)
(* the other row of the watchlist                                          *)
SwitchNext ==
    \/ Buy
    \/ handleAddFunds
    \/ handleChartMouseDown
    \/ ChartSelect

SwitchSpec == Init /\ [][SwitchNext]_vars

(* A long session on one instrument in a steadily falling market, with no  *)
(* user action: long enough for the history to fill and turn over          *)
HistoryTick == tickCount < MaxHistoryTicks /\ MarketTick(CalmShock)

HistoryNext == HistoryTick

HistorySpec == Init /\ [][HistoryNext]_vars

-----------------------------------------------------------------------------
(* The pure functions applied on their own: call records the function, the *)
(* arguments it was given and what it returned.  The application leaves    *)
(* the program where it is.                                                *)

program == <<stocks, selected, tickCount, cash, holdings, orders, lastOp,
             exitCalls, chart, ingests>>

(* Drifts inside the band, at its ends and within one perturbation of them *)
DriftInputs == {-DriftBand, -24500, 0, 24002, DriftBand}
(* Math.random(), in thousandths: its least value, the middle, its greatest *)
RandInputs == {0, 500, 999}
(* 0.01 is the least price of two decimals above 0 *)
PriceInputs == {NaN, Infinity, NegInfinity, Num(0), Num(1), Num(2), Num(2000),
                Num(50000), Num(1000000)}
ChargeSides == {"BUY", "SELL"}
ChargeQuantities == {1, 10, 100}
(* 6666.66 and 6666.67: ten shares are just below and just above the       *)
(* turnover at which the brokerage reaches its cap                         *)
ChargePrices == {1000, 50000, 666666, 666667, 1000000}
ScenarioQuantities == {1, 10, 200, 201}
ScenarioPrices == {2000, 50000}

(* The map callback of the market tick on one instrument *)
CallTickStock ==
    /\ \E p \in {1, 2000, 1000000}, d \in DriftInputs, rd \in RandInputs,
          rs \in RandInputs :
          call' = [fn |-> "tick", s |-> [price |-> p, drift |-> d], rd |-> rd,
                   rs |-> rs, out |-> TickStock([price |-> p, drift |-> d], rd, rs)]
    /\ UNCHANGED program

CallSimulateNextPrice ==
    /\ \E price \in PriceInputs, d \in DriftInputs, r \in RandInputs :
          call' = [fn |-> "simulateNextPrice", price |-> price, drift |-> d,
                   r |-> r, out |-> simulateNextPrice(price, d, r)]
    /\ UNCHANGED program

CallCalculateCharges ==
    /\ \E side \in ChargeSides, qty \in ChargeQuantities, price \in ChargePrices :
          call' = [fn |-> "calculateCharges", side |-> side, qty |-> qty,
                   price |-> price, out |-> calculateCharges(side, qty, price)]
    /\ UNCHANGED program

(* buyStock on the ledger of a fresh session, the instrument at price *)
CallBuyStock ==
    /\ \E price \in ScenarioPrices, qty \in ScenarioQuantities :
          LET live == [s \in Symbols |-> [price |-> price, drift |-> 0]]
              fresh == [cash |-> 10000000, holdings |-> <<>>, orders |-> <<>>,
                        result |-> "none", now |-> 1]
          IN  call' = [fn |-> "buyStock", price |-> price, qty |-> qty,
                       out |-> buyStock(live, fresh, "RELIANCE", qty,
                                        EmptyText, EmptyText, TRUE)]
    /\ UNCHANGED program

CallNext ==
    \/ CallTickStock
    \/ CallSimulateNextPrice
    \/ CallCalculateCharges
    \/ CallBuyStock

CallSpec == Init /\ [][CallNext]_vars

-----------------------------------------------------------------------------
(* Panning over a history longer than the 20 candles kept in view: the     *)
(* session has viewed the second instrument, whose price the rounding      *)
(* holds still, since before the first tick, the user has pressed the      *)
(* mouse on the chart once and released it, and PanCandles candles have    *)
(* been sealed since.                                                      *)

FlatCandle(id, price, ticks) ==
    [id |-> id, open |-> price, high |-> price, low |-> price, close |-> price,
     ticks |-> ticks]

FlatHistory(n, price) ==
    [i \in 1..(n + 1) |-> FlatCandle(i, price, IF i <= n THEN CANDLE_TICKS ELSE 1)]

PanInit ==
    /\ stocks = [s \in Symbols |-> [price |-> InitPrice[s], drift |-> 0]]
    /\ selected = "TCS"
    /\ tickCount = CANDLE_TICKS * PanCandles - 1
    /\ cash = 10000000
    /\ holdings = <<>>
    /\ orders = <<>>
    /\ lastOp = Op("tick", "", 0, Null, Null, NaN, "none")
    /\ exitCalls = <<>>
    /\ call = Idle
    /\ candles = FlatHistory(PanCandles, InitPrice["TCS"])
    /\ candleRef = Some(candles[Len(candles)])
    /\ panOffset = 0
    /\ autoFollow = FALSE
    /\ dragging = FALSE
    /\ dragStartX \in ClientXs
    /\ dragStartPan = 0
    /\ ingests = <<InitPrice["TCS"]>>

PanTick ==
    /\ tickCount < CANDLE_TICKS * PanCandles - 1 + MaxPanTicks
    /\ MarketTick(CalmShock)

PanNext ==
    \/ PanTick
    \/ handleChartMouseDown
    \/ handleChartMouseMove
    \/ handleChartMouseUp
    \/ handleChartDoubleClick
    \/ ChartSelect

PanSpec == PanInit /\ [][PanNext]_vars

-----------------------------------------------------------------------------
(* A session on a universe whose second instrument trades at 10.00, below  *)
(* the flat fee of a sale; the user may withdraw the whole balance shown   *)

PennyPrice == [s \in Symbols |-> IF s = "TCS" THEN 1000 ELSE InitPrice[s]]

PennyInit ==
    /\ stocks = [s \in Symbols |-> [price |-> PennyPrice[s], drift |-> 0]]
    /\ selected = "RELIANCE"
    /\ tickCount = 0
    /\ cash = 10000000
    /\ holdings = <<>>
    /\ orders = <<>>
    /\ lastOp = Op("init", "", 0, Null, Null, NaN, "none")
    /\ exitCalls = <<>>
    /\ call = Idle
    /\ Mounted

WithdrawBalance == Withdraw({Num(cash)})

PennyNext ==
    \/ Tick
    \/ Buy
    \/ Sell
    \/ SellOne
    \/ SellAll
    \/ WithdrawBalance
    \/ Select

PennySpec == PennyInit /\ [][PennyNext]_vars

TypeOK ==
    /\ cash \in Int
    /\ tickCount \in Nat
    /\ panOffset \in Nat
    /\ autoFollow \in BOOLEAN
    /\ dragging \in BOOLEAN
    /\ \A i \in 1..Len(candles) : candles[i].ticks \in 0..CANDLE_TICKS
    /\ selected \in Symbols
    /\ \A i \in 1..Len(holdings) : holdings[i].symbol \in Symbols /\ holdings[i].qty \in Int

-----------------------------------------------------------------------------
(* Vocabulary of the properties *)

Failures == {"InvalidQuantity", "InsufficientFunds", "NoSuchHolding",
             "InsufficientQuantity", "InvalidAmount"}

(* The orders a step put at the head of the log *)
NewCount == Len(orders') - Len(orders)
NewOrders == SubSeq(orders', 1, NewCount)

RECURSIVE QtyLogged(_, _, _)
QtyLogged(os, symbol, side) ==
    IF os = <<>> THEN 0
    ELSE (IF Head(os).symbol = symbol /\ Head(os).side = side THEN Head(os).qty ELSE 0)
         + QtyLogged(Tail(os), symbol, side)

SellsLogged(symbol) ==
    Cardinality({k \in 1..NewCount : orders'[k].symbol = symbol /\ orders'[k].side = "SELL"})

(* What one sell of q at price p adds to cash, and one buy takes from it *)
Proceeds(q, p) == ToFixed2(SubRat(IntRat(q * p), calculateCharges("SELL", q, p).total))
Cost(q, p) == -ToFixed2(SubRat(IntRat(0 - q * p), calculateCharges("BUY", q, p).total))

TargetHit(h, live) == h.target # Null /\ live[h.symbol].price >= Val(h.target)
StopHit(h, live) == h.sl # Null /\ live[h.symbol].price <= Val(h.sl)

(* Cash credited once for every holding the monitor closes *)
RECURSIVE ExitProceeds(_, _)
ExitProceeds(hs, live) ==
    IF hs = <<>> THEN 0
    ELSE (IF TargetHit(Head(hs), live) \/ StopHit(Head(hs), live)
          THEN Proceeds(Head(hs).qty, live[Head(hs).symbol].price) ELSE 0)
         + ExitProceeds(Tail(hs), live)

HoldingOf(hs, symbol) == hs[FindIdx(hs, symbol)]

(* What the sells in a sequence of orders add to cash, one by one *)
RECURSIVE ProceedsLogged(_)
ProceedsLogged(os) ==
    IF os = <<>> THEN 0
    ELSE Proceeds(Head(os).qty, Head(os).price) + ProceedsLogged(Tail(os))

-----------------------------------------------------------------------------
(* C1: in one price-update cycle a holding whose target and stop-loss both *)
(* hold at the live price is sold once: one SELL order is logged for its   *)
(* symbol and cash is credited once.                                       *)
C1_OneSellPerCycle ==
    [][lastOp'.op = "tick" =>
          /\ \A i \in 1..Len(holdings) :
                TargetHit(holdings[i], stocks') /\ StopHit(holdings[i], stocks')
                    => SellsLogged(holdings[i].symbol) = 1
          /\ cash' = cash + ExitProceeds(holdings, stocks')]_vars

(* C2: cash and holdings change together or not at all: in every step the  *)
(* held quantity of each symbol moves by the quantity the step logged as   *)
(* bought minus the quantity it logged as sold, and a step that trades     *)
(* changes the holdings.                                                   *)
C2_CashAndHoldingsTogether ==
    [][/\ \A s \in Symbols :
            HeldQty(holdings', s) - HeldQty(holdings, s)
                = QtyLogged(NewOrders, s, "BUY") - QtyLogged(NewOrders, s, "SELL")
       /\ NewCount > 0 => holdings' # holdings
       /\ (cash' # cash /\ lastOp'.op \notin {"deposit", "withdraw"}) => NewCount > 0]_vars

(* C3: a failed buy, sell, deposit or withdraw leaves cash, the holdings   *)
(* and the order log as they were before the call.                         *)
C3_FailureLeavesLedger ==
    [][lastOp'.result \in Failures => UNCHANGED ledger]_vars

C3_Witness ==
    /\ lastOp.op = "buy"
    /\ lastOp.result = "InsufficientFunds"
    /\ Len(orders) > 0

(* C4: a buy fails with InvalidQuantity when the quantity is not positive, *)
(* otherwise with InsufficientFunds exactly when quantity*price plus the   *)
(* BUY charges is strictly greater than cash; at equality it succeeds.     *)
C4_BuyGuards ==
    [][lastOp'.op = "buy" =>
          LET q == lastOp'.qty
              p == stocks[lastOp'.symbol].price
              fees == calculateCharges("BUY", q, p).total
              over == \/ q * p + fees.w > cash
                      \/ (q * p + fees.w = cash /\ fees.f > 0)
          IN  lastOp'.result = IF q <= 0 THEN "InvalidQuantity"
                               ELSE IF over THEN "InsufficientFunds"
                               ELSE "ok"]_vars

(* a buy that took exactly the whole balance *)
C4_Witness ==
    /\ lastOp.op = "buy"
    /\ lastOp.result = "ok"
    /\ cash = 0
    /\ Len(holdings) > 0

(* C5: a successful buy puts exactly one order (BUY, FILLED, the quantity, *)
(* the fill price, the fee total rounded to paise) on the log and sets     *)
(* cash to the previous cash minus quantity*price + fees, rounded to paise *)
C5_BuyOrderAndCash ==
    [][(lastOp'.op = "buy" /\ lastOp'.result = "ok") =>
          LET q == lastOp'.qty
              p == stocks[lastOp'.symbol].price
              fees == calculateCharges("BUY", q, p).total
          IN  /\ Len(orders') = Len(orders) + 1
              /\ Tail(orders') = orders
              /\ Head(orders') = [id |-> Head(orders').id,
                                  symbol |-> lastOp'.symbol, side |-> "BUY", qty |-> q,
                                  price |-> p, status |-> "FILLED",
                                  charges |-> IF 2 * fees.f >= Scale THEN fees.w + 1
                                              ELSE fees.w]
              /\ cash' = cash - q * p - fees.w - (IF 2 * fees.f > Scale THEN 1 ELSE 0)]_vars

C5_Witness ==
    /\ lastOp.op = "buy"
    /\ lastOp.result = "ok"
    /\ Len(orders) > 0
    /\ orders[1].side = "BUY"
    /\ orders[1].charges > 0

-----------------------------------------------------------------------------
(* A successful buy of a symbol that was / was not held before the step *)
BuyInto(s) == lastOp'.op = "buy" /\ lastOp'.result = "ok" /\ lastOp'.symbol = s

(* C6 as stated: a buy into an existing holding sets the quantity to       *)
(* oldQty+qty and the average to exactly the cost-weighted mean; a buy of  *)
(* a symbol not held creates the holding with the fill price and qty.      *)
C6_ExactMean ==
    [][\A s \in Symbols : BuyInto(s) =>
          LET q == lastOp'.qty
              p == stocks[s].price
              new == HoldingOf(holdings', s)
          IN  /\ Held(holdings', s)
              /\ IF Held(holdings, s)
                 THEN LET old == HoldingOf(holdings, s)
                      IN  /\ new.qty = old.qty + q
                          /\ new.avgBuy * (old.qty + q) = old.qty * old.avgBuy + q * p
                 ELSE new.qty = q /\ new.avgBuy = p]_vars

(* C6 amended: the average is the cost-weighted mean rounded to the        *)
(* nearest paise (within half a paise of it).                              *)
C6_RoundedMean ==
    [][\A s \in Symbols : BuyInto(s) =>
          LET q == lastOp'.qty
              p == stocks[s].price
              new == HoldingOf(holdings', s)
          IN  /\ Held(holdings', s)
              /\ IF Held(holdings, s)
                 THEN LET old == HoldingOf(holdings, s)
                          n == old.qty + q
                          total == old.qty * old.avgBuy + q * p
                      IN  /\ new.qty = n
                          /\ 2 * (new.avgBuy * n - total) <= n
                          /\ 2 * (total - new.avgBuy * n) <= n
                 ELSE new.qty = q /\ new.avgBuy = p]_vars

(* a second buy of a symbol, at another price than the first *)
C6_Witness ==
    /\ lastOp.op = "buy"
    /\ lastOp.result = "ok"
    /\ Held(holdings, lastOp.symbol)
    /\ HoldingOf(holdings, lastOp.symbol).qty > lastOp.qty
    /\ HoldingOf(holdings, lastOp.symbol).avgBuy # stocks[lastOp.symbol].price
    /\ Len(orders) = 2
    /\ orders[2].price # orders[1].price

(* C7: stop-loss and target are first-write-wins: a buy into an existing   *)
(* holding keeps a level that is set and takes the supplied one only when  *)
(* it was unset; no other step that leaves the symbol held (a partial sell *)
(* included) changes either level.                                         *)
C7_FirstWriteWins ==
    [][\A s \in Symbols : (Held(holdings, s) /\ Held(holdings', s)) =>
          LET old == HoldingOf(holdings, s)
              new == HoldingOf(holdings', s)
          IN  IF BuyInto(s)
              THEN /\ new.sl = (IF old.sl # Null THEN old.sl ELSE lastOp'.sl)
                   /\ new.target = (IF old.target # Null THEN old.target
                                    ELSE lastOp'.target)
              ELSE new.sl = old.sl /\ new.target = old.target]_vars

(* a buy that supplied other levels than the ones the holding keeps *)
C7_Witness ==
    /\ lastOp.op = "buy"
    /\ lastOp.result = "ok"
    /\ Held(holdings, lastOp.symbol)
    /\ HoldingOf(holdings, lastOp.symbol).qty > lastOp.qty
    /\ HoldingOf(holdings, lastOp.symbol).sl # Null
    /\ lastOp.sl # Null
    /\ HoldingOf(holdings, lastOp.symbol).sl # lastOp.sl
    /\ HoldingOf(holdings, lastOp.symbol).target # lastOp.target

(* C8 as stated: a sell fails with NoSuchHolding when the symbol is not    *)
(* held and with InsufficientQuantity when the quantity exceeds the held   *)
(* quantity; a sell of exactly the held quantity is accepted.              *)
C8_SellGuardsAsStated ==
    [][lastOp'.op = "sell" =>
          LET s == lastOp'.symbol
              q == lastOp'.qty
          IN  /\ ~Held(holdings, s) => lastOp'.result = "NoSuchHolding"
              /\ (Held(holdings, s) /\ q > HeldQty(holdings, s))
                    => lastOp'.result = "InsufficientQuantity"
              /\ (Held(holdings, s) /\ q = HeldQty(holdings, s))
                    => lastOp'.result = "ok"]_vars

(* The outcome of sellStock(s, q) read off the holdings it is called with *)
SellOutcome(hs, s, q) ==
    IF q <= 0 THEN "InvalidQuantity"
    ELSE IF \A i \in 1..Len(hs) : hs[i].symbol # s THEN "NoSuchHolding"
    ELSE IF \E i \in 1..Len(hs) : hs[i].symbol = s /\ q > hs[i].qty
    THEN "InsufficientQuantity"
    ELSE "ok"

(* C8 amended: a sell whose quantity is not positive fails with            *)
(* InvalidQuantity whatever is held; a sell of a positive quantity fails   *)
(* with NoSuchHolding when the symbol is not held, with                    *)
(* InsufficientQuantity when the quantity exceeds the held quantity, and   *)
(* is accepted otherwise, a sell of exactly the held quantity included.    *)
(* Holds of the sells the auto-exit effect issues as well, against the     *)
(* holdings of the render that runs the effect.                            *)
C8_SellGuards ==
    [][/\ lastOp'.op = "sell" =>
            lastOp'.result = SellOutcome(holdings, lastOp'.symbol, lastOp'.qty)
       /\ \A k \in 1..Len(exitCalls') :
            exitCalls'[k].result
                = SellOutcome(holdings, exitCalls'[k].symbol, exitCalls'[k].qty)]_vars

(* a sell of exactly the held quantity went through *)
C8_Witness ==
    /\ lastOp.op = "sell"
    /\ lastOp.result = "ok"
    /\ lastOp.qty > 1
    /\ ~Held(holdings, lastOp.symbol)
    /\ Len(orders) = 2
    /\ orders[2].qty = lastOp.qty

C10_SellOrderAndCash ==
    [][/\ (lastOp'.op = "sell" /\ lastOp'.result = "ok") =>
            LET q == lastOp'.qty
                p == stocks[lastOp'.symbol].price
                fees == calculateCharges("SELL", q, p).total
            IN  /\ Len(orders') = Len(orders) + 1
                /\ Tail(orders') = orders
                /\ Head(orders').side = "SELL"
                /\ Head(orders').status = "FILLED"
                /\ Head(orders').symbol = lastOp'.symbol
                /\ Head(orders').qty = q
                /\ Head(orders').price = p
                /\ cash' = cash + q * p - fees.w - (IF 2 * fees.f > Scale THEN 1 ELSE 0)
       /\ lastOp'.op = "tick" =>
            /\ NewCount = Len(exitCalls')
            /\ SubSeq(orders', NewCount + 1, Len(orders')) = orders
            /\ \A k \in 1..NewCount :
                  /\ orders'[k].side = "SELL"
                  /\ orders'[k].status = "FILLED"
                  /\ orders'[k].symbol = exitCalls'[NewCount + 1 - k].symbol
                  /\ orders'[k].qty = exitCalls'[NewCount + 1 - k].qty
                  /\ orders'[k].price = stocks'[orders'[k].symbol].price
            /\ cash' = cash + ProceedsLogged(NewOrders)]_vars

C10_Witness ==
    /\ lastOp.op = "sell"
    /\ lastOp.result = "ok"
    /\ Len(orders) = 2
    /\ orders[1].side = "SELL"
    /\ orders[1].charges > 1350
    /\ cash > 0

-----------------------------------------------------------------------------
(* C11: a deposit or a withdrawal of an amount that is not a positive      *)
(* finite number is rejected, and so is a withdrawal of more than the      *)
(* cash; any other deposit sets cash to cash + amount and any other        *)
(* withdrawal to cash - amount, rounded to paise; neither changes the      *)
(* holdings or the order log.                                              *)
C11_DepositWithdraw ==
    [][lastOp'.op \in {"deposit", "withdraw"} =>
          LET a == lastOp'.amount
              bad == ~a.finite \/ a.v <= 0
          IN  /\ UNCHANGED <<holdings, orders>>
              /\ bad => (lastOp'.result = "InvalidAmount" /\ cash' = cash)
              /\ (~bad /\ lastOp'.op = "deposit") =>
                     (lastOp'.result = "ok" /\ cash' = cash + a.v)
              /\ (~bad /\ lastOp'.op = "withdraw") =>
                     IF a.v > cash
                     THEN lastOp'.result = "InsufficientFunds" /\ cash' = cash
                     ELSE lastOp'.result = "ok" /\ cash' = cash - a.v]_vars

(* a withdrawal went through after a trade had moved the cash *)
C11_Witness ==
    /\ lastOp.op = "withdraw"
    /\ lastOp.result = "ok"
    /\ lastOp.amount.v > 0
    /\ Len(orders) > 0
    /\ cash > 0

(* C12: in every reachable state the holdings hold at most one entry per   *)
(* symbol and every entry has a quantity strictly greater than zero: the   *)
(* first buy of a symbol creates its entry, later buys update it, and the  *)
(* sell that brings the quantity to zero removes it.                       *)
C12_HoldingsWellFormed ==
    /\ \A i \in 1..Len(holdings) : holdings[i].qty > 0
    /\ \A i, j \in 1..Len(holdings) :
          holdings[i].symbol = holdings[j].symbol => i = j

(* the sell of the one share held removed the holding *)
C12_Witness ==
    /\ lastOp.op = "sell"
    /\ lastOp.result = "ok"
    /\ lastOp.qty = 1
    /\ holdings = <<>>
    /\ Len(orders) = 2
    /\ orders[2].side = "BUY"
    /\ orders[2].qty = 1

-----------------------------------------------------------------------------
(* C13: the order log never holds more than 60 orders; a successful buy or *)
(* sell puts its order at the head, in front of the orders that were in    *)
(* the log, which keep their order and their content; when the log is full *)
(* the order dropped is the last one, the oldest.                          *)
C13_OrderLogCap ==
    [][/\ Len(orders') <= OrderCap
       /\ (lastOp'.op \in {"buy", "sell"} /\ lastOp'.result = "ok") =>
             /\ Len(orders') = (IF Len(orders) < OrderCap THEN Len(orders) + 1
                                ELSE OrderCap)
             /\ Head(orders').id > (IF orders = <<>> THEN 0 ELSE Head(orders).id)
             /\ Tail(orders') = SubSeq(orders, 1, Len(orders') - 1)
             /\ \A k \in 1..(Len(orders') - 1) : orders'[k].id >= orders'[k + 1].id]_vars

(* the log is full and has dropped orders: its oldest order is not the     *)
(* first one of the session                                                *)
C13_Witness ==
    /\ Len(orders) = OrderCap
    /\ orders[OrderCap].id > 1
    /\ orders[1].id = orders[OrderCap].id + OrderCap - 1

(* C14: order ids are unique: in every reachable state no two orders of    *)
(* the log carry the same id, the orders that one run of the auto-exit     *)
(* effect logs for several holdings included.                              *)
C14_UniqueOrderIds ==
    \A i, j \in 1..Len(orders) : orders[i].id = orders[j].id => i = j

-----------------------------------------------------------------------------
(* C16: after every ingest every candle of the history, the closed ones    *)
(* and the open one, has low <= min(open, close) and                       *)
(* max(open, close) <= high.                                               *)
C16_CandleShape ==
    /\ \A i \in 1..Len(candles) :
          /\ candles[i].low <= Min(candles[i].open, candles[i].close)
          /\ Min(candles[i].open, candles[i].close)
                <= Max(candles[i].open, candles[i].close)
          /\ Max(candles[i].open, candles[i].close) <= candles[i].high
    /\ candleRef # Null =>
          /\ Val(candleRef).low <= Min(Val(candleRef).open, Val(candleRef).close)
          /\ Max(Val(candleRef).open, Val(candleRef).close) <= Val(candleRef).high

(* a closed candle whose body lies strictly inside its range *)
C16_Witness ==
    \E i \in 1..Len(candles) :
       /\ candles[i].ticks = CANDLE_TICKS
       /\ candles[i].low < Min(candles[i].open, candles[i].close)
       /\ Max(candles[i].open, candles[i].close) < candles[i].high
       /\ candles[i].open # candles[i].close
       /\ i < Len(candles)

(* C17: the ingest that brings the open candle to 6 ticks seals it into    *)
(* the history and opens a new candle whose open, high, low and close are  *)
(* the sealed candle's close and whose tick count is 0; an ingest that     *)
(* leaves the open candle below 6 ticks seals nothing; no step adds more   *)
(* than one candle to the history, and every closed candle holds exactly   *)
(* 6 ticks.                                                                *)
C17_SealAtSix ==
    [][/\ Len(candles') <= Len(candles) + 1
       /\ \A i \in 1..(Len(candles') - 1) : candles'[i].ticks = CANDLE_TICKS
       /\ (Len(ingests') = 1 /\ lastOp'.op # "select" /\ candleRef # Null) =>
             LET n == Len(candles)
                 cur == Val(candleRef)
             IN  IF cur.ticks + 1 = CANDLE_TICKS
                 THEN /\ Len(candles') = n + 1
                      /\ candles'[n].ticks = CANDLE_TICKS
                      /\ candles'[n].id = cur.id
                      /\ candles'[n + 1] = [id |-> candles'[n + 1].id,
                                            open |-> candles'[n].close,
                                            high |-> candles'[n].close,
                                            low |-> candles'[n].close,
                                            close |-> candles'[n].close,
                                            ticks |-> 0]
                      /\ candleRef' = Some(candles'[n + 1])
                 ELSE /\ Len(candles') = n
                      /\ candleRef' = Some(candles'[n])
                      /\ candles'[n].ticks = cur.ticks + 1
                      /\ candles'[n].ticks < CANDLE_TICKS]_vars

(* a candle was sealed by the last step, away from its opening price *)
C17_Witness ==
    /\ Len(candles) = 2
    /\ Len(ingests) = 1
    /\ candles[1].ticks = CANDLE_TICKS
    /\ candles[1].close # candles[1].open
    /\ candles[2].ticks = 0
    /\ candles[2].open = candles[1].close
    /\ candleRef = Some(candles[2])

(* C18: after every ingest the history, the open candle included, has at   *)
(* most 300 candles; they are the most recently created ones, in the       *)
(* order of their creation, the last being the newest candle produced; a   *)
(* step drops at most the oldest candle and leaves the closed candles that *)
(* stay as they were.                                                      *)
C18_HistoryCap ==
    [][/\ Len(candles') <= HistoryCap
       /\ Len(candles') = Min(HistoryCap, 1 + (tickCount' + 1) \div CANDLE_TICKS)
       /\ candles'[Len(candles')].id = 1 + (tickCount' + 1) \div CANDLE_TICKS
       /\ \A i \in 1..Len(candles') :
             candles'[i].id = candles'[Len(candles')].id - Len(candles') + i
       /\ LET k == candles'[1].id - candles[1].id
          IN  /\ k \in {0, 1}
              /\ \A i \in (1 + k)..(Len(candles) - 1) : candles'[i - k] = candles[i]]_vars

(* the history is full and has dropped its six oldest candles *)
C18_Witness ==
    /\ Len(candles) = HistoryCap
    /\ candles[1].id > 6
    /\ candles[HistoryCap].id = candles[1].id + HistoryCap - 1
    /\ candles[1].open > candles[HistoryCap].open

(* C19: an ingest folds the price of the viewed instrument into the open   *)
(* candle: with no open candle (the history was just emptied) it creates   *)
(* one with open = high = low = close = price and 1 tick; otherwise the    *)
(* candle that was open gets high = max(high, price), low =                *)
(* min(low, price), close = price and one tick more, and keeps its open.   *)
C19_IngestFolds ==
    [][Len(ingests') = 1 =>
          LET price == ingests'[1]
          IN  /\ price = stocks'[selected'].price
              /\ IF lastOp'.op = "select"
                 THEN /\ candles' = <<[id |-> 1, open |-> price, high |-> price,
                                       low |-> price, close |-> price, ticks |-> 1]>>
                      /\ candleRef' = Some(candles'[1])
                 ELSE /\ candleRef # Null
                      /\ candles[Len(candles)] = Val(candleRef)
                      /\ candles'[Len(candles)]
                            = [Val(candleRef) EXCEPT
                                 !.high = IF price > @ THEN price ELSE @,
                                 !.low = IF price < @ THEN price ELSE @,
                                 !.close = price,
                                 !.ticks = @ + 1]]_vars

(* the open candle after a fold that moved neither its high nor its low *)
C19_Witness ==
    /\ Len(ingests) = 1
    /\ lastOp.op # "select"
    /\ candleRef # Null
    /\ Val(candleRef).ticks = 4
    /\ Val(candleRef).low < Val(candleRef).close
    /\ Val(candleRef).close < Val(candleRef).high
    /\ Val(candleRef).close # Val(candleRef).open
    /\ Val(candleRef).close = ingests[1]

(* C20: the aggregator ingests once per timer tick for the viewed          *)
(* instrument: a timer tick folds exactly one price into the history, and  *)
(* a step that is neither a timer tick nor a change of instrument (a       *)
(* mouse down, move or up on the chart, a double click) folds none and     *)
(* leaves the history and the open candle as they were.                    *)
C20_OneIngestPerTick ==
    [][/\ lastOp'.op = "tick" => Len(ingests') = 1
       /\ lastOp'.op \notin {"tick", "select"} =>
             /\ ingests' = <<>>
             /\ candles' = candles
             /\ candleRef' = candleRef]_vars

-----------------------------------------------------------------------------
(* C21: a switch of the viewed instrument empties the candle history and   *)
(* clears the open candle: no candle of the instrument left behind stays,  *)
(* the first ingest after it opens a fresh first candle with 1 tick at the *)
(* price of the new instrument (a further ingest of the same step folds    *)
(* into that candle), and cash, the holdings and the order log are         *)
(* unchanged.                                                              *)
C21_SwitchResets ==
    [][lastOp'.op = "select" =>
          /\ UNCHANGED ledger
          /\ selected' # selected
          /\ IF ingests' = <<>>
             THEN candles' = <<>> /\ candleRef' = Null
             ELSE LET price == stocks'[selected'].price
                      fresh == [id |-> 1, open |-> price, high |-> price,
                                low |-> price, close |-> price, ticks |-> 1]
                  IN  /\ \A k \in 1..Len(ingests') : ingests'[k] = price
                      /\ candles' = <<[fresh EXCEPT !.ticks = Len(ingests')]>>
                      /\ candleRef' = Some(candles'[1])]_vars

(* a switch back to the first instrument with two positions open *)
C21_Witness ==
    /\ lastOp.op = "select"
    /\ selected = "RELIANCE"
    /\ Len(holdings) = 2
    /\ Len(orders) = 2
    /\ Len(candles) = 1
    /\ candles[1].open = stocks["RELIANCE"].price
    /\ candles[1].ticks = 1

(* The open candle is the last of the history and the only one below 6    *)
(* ticks                                                                   *)
OneOpenCandle ==
    IF candles = <<>> THEN candleRef = Null
    ELSE /\ candleRef = Some(candles[Len(candles)])
         /\ candles[Len(candles)].ticks < CANDLE_TICKS
         /\ \A i \in 1..(Len(candles) - 1) : candles[i].ticks = CANDLE_TICKS

(* C22: a non-empty history holds exactly one open candle, its last        *)
(* element; every other candle is closed, and a step that is not a switch  *)
(* of instrument changes no field of any candle but the last one: the      *)
(* candles before it stay in place as they were.                           *)
C22_ClosedCandlesFixed ==
    [][/\ OneOpenCandle
       /\ OneOpenCandle'
       /\ lastOp'.op # "select" =>
             /\ Len(candles') >= Len(candles)
             /\ \A i \in 1..(Len(candles) - 1) : candles'[i] = candles[i]]_vars

(* an ingest into the second candle of a history *)
C22_Witness ==
    /\ Len(candles) = 2
    /\ Len(ingests) = 1
    /\ candles[2].ticks = 3
    /\ candles[1].close # candles[1].open
    /\ candles[2].close # candles[2].open


(* C23: a tick leaves an instrument's drift in the band [-0.00025,         *)
(* +0.00025], and the new drift is the previous one plus a perturbation in *)
(* [-0.00001, +0.00001], clamped to that band.                             *)
C23_DriftInBand ==
    call.fn = "tick" =>
        LET before == call.s.drift
            after == call.out.drift
        IN  /\ after >= -25000
            /\ after <= 25000
            /\ \E e \in -1000..1000 :
                   after = IF before + e > 25000 THEN 25000
                           ELSE IF before + e < -25000 THEN -25000
                           ELSE before + e

(* A drift at the floor of the band that the perturbation pushes further   *)
(* down: the clamp holds it at the floor                                   *)
C23_Witness ==
    /\ call.fn = "tick"
    /\ call.s.drift = -25000
    /\ call.rd = 0
    /\ call.out.drift = -25000



(* C24: the price generator returns 0 for a previous price that is not     *)
(* finite and a price for every other one, so the tick callback gives      *)
(* every instrument a new price.                                           *)
C24_GeneratorTotal ==
    /\ call.fn = "simulateNextPrice" =>
           IF call.price.finite THEN call.out \in Nat ELSE call.out = 0
    /\ call.fn = "tick" => call.out.price \in Nat

(* The generator given Infinity *)
C24_Witness ==
    /\ call.fn = "simulateNextPrice"
    /\ call.price = Infinity
    /\ call.out = 0



(* n * x for a small natural n, the product split so it stays in 32 bits *)
TimesRat(x, n) ==
    LET hi == (x.f \div 10000) * n
        lo == (x.f % 10000) * n
    IN  Rat(x.w * n + (hi \div 10000), (hi % 10000) * 10000 + lo)

(* C25: computeCharges(side, quantity, price) returns turnover =           *)
(* quantity * price, brokerage = min(0.0003 turnover, 20), stt = 0.00025   *)
(* turnover for SELL only, exchange = 0.0000345 turnover, sebi = 0.000001  *)
(* turnover, stamp = 0.00003 turnover for BUY only, gst = 0.18 (brokerage  *)
(* + exchange), dp = 13.5 for SELL only, and total = the sum of the seven. *)
C25_ChargesFormula ==
    call.fn = "calculateCharges" =>
        LET t == call.qty * call.price
            c == call.out
            uncapped == MulRate(t, 30000)
            none == IntRat(0)
        IN  /\ c.turnover = t
            /\ c.brokerage = IF LessRat(uncapped, IntRat(2000)) THEN uncapped
                             ELSE IntRat(2000)
            /\ c.stt = IF call.side = "SELL" THEN MulRate(t, 25000) ELSE none
            /\ c.exchange = MulRate(t, 3450)
            /\ c.sebi = MulRate(t, 100)
            /\ c.stamp = IF call.side = "BUY" THEN MulRate(t, 3000) ELSE none
            /\ TimesRat(c.gst, 100) = TimesRat(AddRat(c.brokerage, c.exchange), 18)
            /\ c.dp = IF call.side = "SELL" THEN IntRat(1350) ELSE none
            /\ c.total = AddRat(c.brokerage, AddRat(c.stt, AddRat(c.exchange,
                             AddRat(c.sebi, AddRat(c.stamp, AddRat(c.gst, c.dp))))))

(* A sale whose brokerage is held at the cap *)
C25_Witness ==
    /\ call.fn = "calculateCharges"
    /\ call.side = "SELL"
    /\ call.qty * call.price = 6666670
    /\ call.out.brokerage = IntRat(2000)
    /\ call.out.dp = IntRat(1350)
    /\ call.out.stamp = IntRat(0)



(* C26: for a fixed side the total of the charges is strictly increasing   *)
(* in the turnover, also across the turnover at which the brokerage        *)
(* reaches its cap: of two trades of one side, the one with the smaller    *)
(* turnover has the smaller total.                                         *)
C26_TotalIncreasing ==
    [][/\ call.fn = "calculateCharges"
       /\ call'.fn = "calculateCharges"
       /\ call.side = call'.side
       /\ call.out.turnover < call'.out.turnover
       => LessRat(call.out.total, call'.out.total)]_vars

(* A purchase whose brokerage has just reached the cap *)
C26_Witness ==
    /\ call.fn = "calculateCharges"
    /\ call.side = "BUY"
    /\ call.out.turnover = 6666670
    /\ call.out.brokerage = IntRat(2000)
    /\ LessRat(IntRat(2000), call.out.total)



(* C27: on the ledger of a fresh session (cash 100000.00, no holdings, no  *)
(* orders) a buy of 10 shares at 500.00 succeeds, leaves cash 94997.87,    *)
(* creates a holding of 10 at average price 500.00 and records one BUY     *)
(* order whose fee total is 2.13.                                          *)
C27_FirstBuy ==
    call.fn = "buyStock" /\ call.price = 50000 /\ call.qty = 10 =>
        /\ call.out.result = "ok"
        /\ call.out.cash = 9499787
        /\ Len(call.out.holdings) = 1
        /\ call.out.holdings[1].symbol = "RELIANCE"
        /\ call.out.holdings[1].qty = 10
        /\ call.out.holdings[1].avgBuy = 50000
        /\ Len(call.out.orders) = 1
        /\ call.out.orders[1].side = "BUY"
        /\ call.out.orders[1].qty = 10
        /\ call.out.orders[1].charges = 213

(* The buy of 10 at 500.00 went through *)
C27_Witness ==
    /\ call.fn = "buyStock"
    /\ call.price = 50000
    /\ call.qty = 10
    /\ call.out.result = "ok"
    /\ call.out.orders # <<>>



C29_CashNeverNegative == cash >= 0



(* C30: for every symbol the held quantity (0 if not held) equals the sum  *)
(* of the quantities of the BUY orders recorded for it minus the sum of    *)
(* the quantities of its SELL orders, so the recorded SELL quantity never  *)
(* exceeds the recorded BUY quantity.                                      *)
C30_PositionsMatchOrders ==
    \A s \in Symbols :
        /\ HeldQty(holdings, s) = QtyLogged(orders, s, "BUY") - QtyLogged(orders, s, "SELL")
        /\ QtyLogged(orders, s, "SELL") <= QtyLogged(orders, s, "BUY")



(* C31: candles are price-continuous: of every two adjacent candles of the *)
(* history the later one opens at the close of the earlier one, also after *)
(* the oldest candles have been evicted.                                   *)
C31_PriceContinuous ==
    \A i \in 1..(Len(candles) - 1) : candles[i + 1].open = candles[i].close

(* A full history that has dropped its oldest candles, over a market that  *)
(* moved: the first candle kept closed away from its open, the newest has  *)
(* moved off its own open                                                  *)
C31_Witness ==
    /\ Len(candles) = HistoryCap
    /\ candles[1].id > 1
    /\ candles[1].close # candles[1].open
    /\ candles[2].open = candles[1].close
    /\ candles[HistoryCap].close # candles[HistoryCap].open



(* C32: after every ingest the open candle holds 0 to 5 ticks and every    *)
(* closed candle of the history holds exactly 6; no candle ever holds more *)
(* than 6.                                                                 *)
C32_TickCounts ==
    /\ candleRef # Null => Val(candleRef).ticks \in 0..5
    /\ \A i \in 1..Len(candles) :
          /\ candles[i].ticks <= 6
          /\ candles[i].ticks = (IF i < Len(candles) THEN 6 ELSE Val(candleRef).ticks)

(* A mouse down on the chart has just folded the sixth price into the      *)
(* first candle: it is closed with 6 ticks, the candle after it holds none *)
C32_Witness ==
    /\ Len(candles) = 2
    /\ candles[1].ticks = 6
    /\ Val(candleRef).ticks = 0
    /\ lastOp.op = "mousedown"
    /\ Len(ingests) = 1



(* C33: simulated prices stay valid inputs of the generator: from a price  *)
(* of at least 0.01, with the drift within its band and the shock within   *)
(* [-0.000075, +0.000075], the rounded result is again at least 0.01, so   *)
(* no tick drives a price to 0 or below.                                   *)
C33_PriceStaysPositive ==
    /\ (call.fn = "simulateNextPrice" /\ call.price.finite /\ call.price.v >= 1)
           => call.out >= 1
    /\ (call.fn = "tick" /\ call.s.price >= 1) => call.out.price >= 1

(* A tick on an instrument at 0.01, the drift at the floor of its band and *)
(* the shock at its least: the price stays 0.01                            *)
C33_Witness ==
    /\ call.fn = "tick"
    /\ call.s.price = 1
    /\ call.out.drift = -25000
    /\ call.rs = 0
    /\ call.out.price = 1


=============================================================================
